---- MODULE Spec2Model ----
(***************************************************************************)
(* Model of the tap-executor package: the sync orchestrator                *)
(* (sync.sync_connection), the extractor supervisor                        *)
(* (tap_runner.run_tap_woocommerce), the output classifier                 *)
(* (sync.process_tap_output) and the batch persister                       *)
(* (sync.insert_records_batch).                                            *)
(***************************************************************************)
EXTENDS Integers, Sequences, FiniteSets, TLC

(***************************************************************************)
(* Bounds of the model.                                                    *)
(***************************************************************************)
\* number of orchestrator runs in one behaviour
MaxRuns == 2
\* number of lines the extractor writes (both channels together) when it is
\* supervised within an orchestrator run, and when it is supervised alone
MaxRunWrites == 3
MaxWrites == 4
\* capacity, in lines, of the kernel pipe behind each channel
PipeCap == 2
\* number of lines the extractor writes when the two classifiers are
\* exercised on every kind of line
MaxLines == 3
\* length of the record sequences handed to insert_records_batch on its own
MaxRecords == 1200
\* number of direct calls of validate_tap_config on one file
MaxValidations == 2

(***************************************************************************)
(* Program constants.                                                      *)
(***************************************************************************)
CHUNK_SIZE == 500

(***************************************************************************)
(* Values.  Python's None, a key that a JSON object does not have, the     *)
(* empty JSON object, and the contents a file can have.                    *)
(***************************************************************************)
None == "None"
MISSING == "MISSING"
EMPTY == "EMPTY"
\* File contents: no file, a file that does not parse, a file holding JSON.
ABSENT == [k |-> "absent", v |-> ""]
CORRUPT == [k |-> "corrupt", v |-> ""]
Json(v) == [k |-> "json", v |-> v]
NoConn == [id |-> "none", user_id |-> "none", project_id |-> "none", type |-> "none"]

Min(a, b) == IF a < b THEN a ELSE b
PyBool(b) == IF b THEN "True" ELSE "False"

\* JSON values an extractor can emit as the value of a STATE message;
\* EMPTY is the empty object {}.
StateValues == {"V1", "V2", EMPTY}

\* Python truthiness of a checkpoint value (None and {} are falsy;
\* TruthyAlways: the test left out).
TruthyAlways(v) == TRUE
Truthy(v) == v \notin {None, EMPTY}

(***************************************************************************)
(* Output lines.  The text of a line is white space, the text proper and   *)
(* white space again, where white space is what str.strip removes.  A line *)
(* is represented by what json.loads makes of the text proper: parse =     *)
(* "err" (not JSON, or nothing at all), "nonobj" (JSON, but not an object) *)
(* or "obj", and for an object the keys type, stream, record, value        *)
(* (MISSING when the object has no such key).  stream = "UNHASHABLE" is a  *)
(* stream given as a JSON array or object.  parse = "undecodable" is a     *)
(* line that starts with bytes that are not UTF-8.                         *)
(* lead and trail are the white space before and after the text proper:    *)
(* "none", "blank" (spaces and tabs, which json.loads skips), "space"      *)
(* (white space json.loads rejects and str.splitlines does not cut at:     *)
(* U+00A0, \x1f) or "boundary" (one character at which str.splitlines      *)
(* cuts and which json.loads rejects: U+2028, U+2029, \x0b, \x0c, \x85).   *)
(* sep is the number of such line boundaries inside the text proper (in a  *)
(* JSON text they are inside strings); readline cuts at none of them.      *)
(* wide tells whether the line holds characters of more than one byte.     *)
(* part = "whole" is a line as written; "head" and "tail" are the two      *)
(* sides of a line that a read of the pipe ended in; "piece" is the text   *)
(* of a piece of a line, represented like a line.                          *)
(***************************************************************************)
Line(p, t, s, r, v) ==
    [parse |-> p, type |-> t, stream |-> s, record |-> r, value |-> v,
     lead |-> "none", trail |-> "none", sep |-> 0, wide |-> FALSE, part |-> "whole"]
BadLine == Line("err", MISSING, MISSING, MISSING, MISSING)
NonObjLine == Line("nonobj", MISSING, MISSING, MISSING, MISSING)
NoTypeLine == Line("obj", MISSING, MISSING, MISSING, MISSING)
OtherLine == Line("obj", "ACTIVATE_VERSION", "orders", MISSING, MISSING)
SchemaLine(s) == Line("obj", "SCHEMA", s, MISSING, MISSING)
StateLine(v) == Line("obj", "STATE", MISSING, MISSING, v)
RecordLine(s, r) == Line("obj", "RECORD", s, r, MISSING)
UndecodableLine == Line("undecodable", MISSING, MISSING, MISSING, MISSING)
\* the same text with white space l before it and t after it
Padded(line, l, t) == [line EXCEPT !.lead = l, !.trail = t]
\* the same text with n line boundaries inside it
WithSeparator(line, n) == [line EXCEPT !.sep = n, !.wide = TRUE]
\* the same text with a character of more than one byte in it
Wide(line) == [line EXCEPT !.wide = TRUE]
\* str.strip(): the text proper
Strip(line) == [line EXCEPT !.lead = "none", !.trail = "none"]

\* what json.loads makes of the text as it is: white space other than
\* blanks around the text proper makes it fail
Loads(line) ==
    IF line.lead \in {"space", "boundary"} \/ line.trail \in {"space", "boundary"}
    THEN "err" ELSE line.parse

\* A read of the pipe that ends inside a line leaves the head of the line
\* with the reader and the tail in the pipe.
HeadPart(line) == [line EXCEPT !.part = "head"]
TailPart(line) == [line EXCEPT !.part = "tail"]
\* the reader completes the head it holds with the tail it reads
Join(head, tail) == [tail EXCEPT !.part = "whole"]
Undecodable(line) == line.parse = "undecodable" /\ line.part = "whole"

(***************************************************************************)
(* The text communicate() returns, cut by str.splitlines().                *)
(***************************************************************************)
\* The text of a piece of a line, decoded on its own.
Piece(text) == [text EXCEPT !.part = "piece", !.sep = 0, !.wide = FALSE]
\* the text proper, without boundaries
Proper(line) == [Strip(line) EXCEPT !.sep = 0, !.wide = FALSE, !.part = "whole"]
\* a text of nothing, or of blanks
Blank(line) == IF "type" \in DOMAIN line THEN BadLine ELSE Proper(line)
\* A piece of a text that is not JSON is any text: not JSON, a JSON value
\* that is not an object, an object that is no message, or a message.
PieceTexts == {BadLine, NonObjLine, NoTypeLine, RecordLine("orders", "r1")}
\* The piece from a place inside the text proper to its end.  The end of a
\* JSON object closes a brace the piece does not open; the end of another
\* JSON value can be a value (the last digits of a number).
TailTexts(line) ==
    CASE line.parse = "obj" -> {BadLine}
      [] line.parse = "nonobj" -> {BadLine, NonObjLine}
      [] line.parse = "err" -> PieceTexts
      [] OTHER -> {Proper(line)}
\* The piece of the text proper between a line boundary inside it and its
\* start or its end: in a JSON text it begins or ends inside a string.
EdgeTexts(line) ==
    CASE line.parse \in {"obj", "nonobj"} -> {BadLine}
      [] line.parse = "err" -> PieceTexts
      [] OTHER -> {Proper(line)}
\* The piece that ends at a line boundary inside the text proper and begins
\* at another or where a read ended: in a JSON text, what a string holds
\* there (any text without a quote: a number, an empty object, ...).
MidTexts(line) ==
    CASE line.parse \in {"obj", "nonobj"} -> {BadLine, NonObjLine, NoTypeLine}
      [] line.parse = "err" -> PieceTexts
      [] OTHER -> {Proper(line)}

RECURSIVE PieceSeqs(_, _)
PieceSeqs(texts, n) ==
    IF n = 0 THEN {<<>>}
    ELSE {<<Piece(x)>> \o s : x \in texts, s \in PieceSeqs(texts, n - 1)}

\* white space that is a line boundary is cut off as a piece of nothing
NoBoundary(w) == IF w = "boundary" THEN "none" ELSE w
BoundaryPiece(line, w) == IF w = "boundary" THEN <<Piece(Blank(line))>> ELSE <<>>

\* The pieces of the text that begins with one of firsts, goes over n line
\* boundaries inside the line and on to the end of the line.
PiecesToEnd(line, firsts, n) ==
    LET t == NoBoundary(line.trail)
        last == BoundaryPiece(line, line.trail)
    IN  IF n = 0
        THEN {<<Piece(Padded(f, f.lead, t))>> \o last : f \in firsts}
        ELSE {<<Piece(f)>> \o m \o <<Piece(Padded(x, "none", t))>> \o last :
                 f \in firsts, m \in PieceSeqs(MidTexts(line), n - 1), x \in EdgeTexts(line)}
\* The pieces of the line with white space l before it.
PiecesFromStart(line, l) ==
    LET firsts == IF line.sep = 0 THEN {Padded(Proper(line), NoBoundary(l), "none")}
                  ELSE {Padded(f, NoBoundary(l), "none") : f \in EdgeTexts(line)}
    IN  {BoundaryPiece(line, l) \o s : s \in PiecesToEnd(line, firsts, line.sep)}
\* what is left of the white space before the text when the read ended in it
LeadsLeft(l) ==
    CASE l = "none" -> {}
      [] l = "boundary" -> {"none"}
      [] OTHER -> {l, "none"}
\* The pieces of the tail of a line.  The read ended in the white space
\* before the text proper (the tail holds all of the text proper), inside
\* the text proper (with any number of its boundaries in the tail), or
\* after it (the tail is blank or nothing).
TailPieces(line) ==
    UNION {PiecesFromStart(line, l) : l \in LeadsLeft(line.lead)}
    \cup UNION {PiecesToEnd(line, IF n = 0 THEN TailTexts(line) ELSE MidTexts(line), n) :
                   n \in 0..line.sep}
    \cup {<<Piece(Blank(line))>>}
    \cup (IF line.trail = "boundary" THEN {<<Piece(Blank(line)), Piece(Blank(line))>>} ELSE {})

Decoded(lines) == [raised |-> FALSE, lines |-> lines]
DecodeError == [raised |-> TRUE, lines |-> <<>>]

\* What the decoding of the bytes of one item left in the pipe and
\* str.splitlines() make of it.  A line without line boundaries stays as it
\* is, white space and all; another is cut at its boundaries.  When the
\* line holds characters of more than one byte its tail can begin inside
\* one, which the decoding rejects.
SplitLine(line) ==
    IF line.part = "tail"
    THEN (IF line.wide THEN {DecodeError} ELSE {})
         \cup {Decoded(s) : s \in TailPieces(line)}
    ELSE IF Undecodable(line) THEN {DecodeError}
    ELSE IF line.sep = 0 /\ line.lead # "boundary" /\ line.trail # "boundary"
    THEN {Decoded(<<line>>)}
    ELSE {Decoded(s) : s \in PiecesFromStart(line, line.lead)}
RECURSIVE SplitLines(_)
SplitLines(lines) ==
    IF lines = <<>> THEN {Decoded(<<>>)}
    ELSE {IF a.raised \/ b.raised THEN DecodeError ELSE Decoded(a.lines \o b.lines) :
             a \in SplitLine(Head(lines)), b \in SplitLines(Tail(lines))}

\* dict.get(key, default)
Get(msg, key, default) == IF msg[key] = MISSING THEN default ELSE msg[key]

\* The exception classes the two classifiers can meet, all of them
\* subclasses of Exception.
ExceptionClasses == {"JSONDecodeError", "AttributeError", "TypeError"}

(***************************************************************************)
(* sync.process_tap_output                                                 *)
(***************************************************************************)
\* the exception the body of the try block raises on a line ("none" if none)
ProcessExc(line) ==
    IF Loads(line) = "err" THEN "JSONDecodeError"
    ELSE IF Loads(line) = "nonobj" THEN "AttributeError"
    ELSE IF Get(line, "type", None) = "RECORD" /\ line.stream = "UNHASHABLE" THEN "TypeError"
    ELSE "none"

\* the except clauses of the loop body: JSONDecodeError, then Exception
ProcessCaught(exc) == exc = "JSONDecodeError" \/ exc \in ExceptionClasses

\* stream_counts[stream] = stream_counts.get(stream, 0) + 1
CountUp(counts, s) ==
    IF s \in DOMAIN counts THEN [counts EXCEPT ![s] = @ + 1] ELSE counts @@ (s :> 1)

NewRecord(line, uid, pid, cid) ==
    [user_id |-> uid, project_id |-> pid, connection_id |-> cid,
     stream |-> Get(line, "stream", None), record |-> Get(line, "record", EMPTY)]

\* one iteration of the for loop (ProcessLineCountAll: the same without the
\* test of the message type)
ProcessLineCountAll(acc, line, uid, pid, cid) ==
    IF acc.raised # "none" THEN acc
    ELSE IF ProcessExc(line) # "none"
         THEN IF ProcessCaught(ProcessExc(line)) THEN acc
              ELSE [acc EXCEPT !.raised = ProcessExc(line)]
    ELSE [acc EXCEPT !.stream_counts = CountUp(@, Get(line, "stream", None)),
                     !.records = Append(@, NewRecord(line, uid, pid, cid))]
ProcessLine(acc, line, uid, pid, cid) ==
    IF acc.raised # "none" THEN acc
    ELSE IF ProcessExc(line) # "none"
         THEN IF ProcessCaught(ProcessExc(line)) THEN acc
              ELSE [acc EXCEPT !.raised = ProcessExc(line)]
    ELSE IF Get(line, "type", None) = "RECORD"
         THEN [acc EXCEPT !.stream_counts = CountUp(@, Get(line, "stream", None)),
                          !.records = Append(@, NewRecord(line, uid, pid, cid))]
    ELSE acc

RECURSIVE ProcessFrom(_, _, _, _, _, _)
ProcessFrom(acc, lines, i, uid, pid, cid) ==
    IF i > Len(lines) THEN acc
    ELSE ProcessFrom(ProcessLine(acc, lines[i], uid, pid, cid), lines, i + 1, uid, pid, cid)

process_tap_output(lines, uid, pid, cid) ==
    ProcessFrom([records |-> <<>>, stream_counts |-> <<>>, raised |-> "none"],
                lines, 1, uid, pid, cid)

(***************************************************************************)
(* tap_runner.run_tap_woocommerce: the live classification of one line     *)
(***************************************************************************)
LiveExc(line) ==
    IF Loads(line) = "err" THEN "JSONDecodeError"
    ELSE IF Loads(line) = "nonobj" THEN "AttributeError"
    ELSE "none"

\* the except clauses: JSONDecodeError, then Exception (LiveCaughtJSONOnly:
\* the first clause alone)
LiveCaughtJSONOnly(exc) == exc = "JSONDecodeError"
LiveCaught(exc) == exc = "JSONDecodeError" \/ exc \in ExceptionClasses

\* last_state after the line: only a STATE message changes it
LiveState(prev, line) ==
    IF LiveExc(line) = "none" /\ Get(line, "type", "UNKNOWN") = "STATE"
    THEN Get(line, "value", None) ELSE prev

(***************************************************************************)
(* sync.insert_records_batch: the chunk that starts at offset i            *)
(***************************************************************************)
\* records[i:i + CHUNK_SIZE]
Chunk(recs, i) == SubSeq(recs, i + 1, Min(i + CHUNK_SIZE, Len(recs)))

(***************************************************************************)
(* Connections, their directories and the files in them.                   *)
(***************************************************************************)
Conn(i, u, p, t) == [id |-> i, user_id |-> u, project_id |-> p, type |-> t]
Connections ==
    {Conn("c1", "u1", "p1", "woocommerce"),
     Conn("c2", "u1", "p1", "woocommerce")}

\* Path("users_private", user_id, project_id, "connections", connection_type)
BasePath(c) == <<"users_private", c.user_id, c.project_id, "connections", c.type>>

Dirs == {BasePath(c) : c \in Connections}
FileNames == {"config", "catalog", "state"}
Paths == Dirs \X FileNames
config_path(c) == <<BasePath(c), "config">>
catalog_path(c) == <<BasePath(c), "catalog">>
state_path(c) == <<BasePath(c), "state">>

(***************************************************************************)
(* tap_runner.validate_tap_config.  A config document is a record of the   *)
(* four required keys, whose values are strings given as sequences of      *)
(* tokens, NoKey when the key is absent.                                   *)
(***************************************************************************)
NoKey == <<MISSING>>
RequiredFields == {"site_url", "consumer_key", "consumer_secret", "start_date"}
Doc(url, k, s, d) == [site_url |-> url, consumer_key |-> k, consumer_secret |-> s, start_date |-> d]
ConfigDocs ==
    {Doc(<<"https://", "shop">>, <<"ck">>, <<"cs">>, <<"2024-01-01", "Z">>),
     Doc(<<"http://", "shop">>, <<"ck">>, <<"cs">>, <<"2024-01-01">>),
     Doc(<<"https://", "shop">>, NoKey, <<"cs">>, <<"2024-01-01", "Z">>),
     Doc(<<"ftp://", "shop">>, <<"ck">>, <<"cs">>, <<"2024-01-01", "Z">>)}
\* the documents connection records hold when a run starts
RunConfigDocs ==
    {Doc(<<"http://", "shop">>, <<"ck">>, <<"cs">>, <<"2024-01-01">>),
     Doc(<<"https://", "shop">>, NoKey, <<"cs">>, <<"2024-01-01", "Z">>)}

\* the keys of required_fields that are not in the document
\* (missing_fields_no_key: consumer_key not required)
missing_fields_no_key(doc) == {f \in RequiredFields \ {"consumer_key"} : doc[f] = NoKey}
missing_fields(doc) == {f \in RequiredFields : doc[f] = NoKey}
StartsWithHttp(url) == Len(url) > 0 /\ url[1] \in {"http://", "https://"}
\* str.endswith("Z") (EndsWithZNever: the test always false)
EndsWithZNever(d) == FALSE
\* (EndsWithZAlways: every start_date taken as already in UTC form)
EndsWithZAlways(d) == TRUE
EndsWithZ(d) == Len(d) > 0 /\ d[Len(d)] = "Z"

\* every shape of config document: each key present or absent, the three
\* kinds of site_url, start_date with and without the final Z or empty
AllConfigDocs ==
    {Doc(u, k, c, d) :
        u \in {NoKey, <<"http://", "shop">>, <<"https://", "shop">>, <<"ftp://", "shop">>},
        k \in {NoKey, <<"ck">>}, c \in {NoKey, <<"cs">>},
        d \in {NoKey, <<>>, <<"2024-01-01">>, <<"2023-06-30", "Z">>}}

\* the outcomes of a write of a file in place: done, or failed before the
\* file was opened (the file is as it was), or failed after open(path, 'w')
\* had truncated it (the file is damaged)
WriteOutcomes == {"ok", "open_failed", "write_failed"}

\* [ok |-> the value returned, file |-> the content of the config file
\* afterwards, missing |-> the missing fields logged, wrote |-> whether the
\* file was rewritten, write |-> the outcome of the write, "none" when the
\* file was not opened for writing].  A write that fails raises inside the
\* outer try and the call returns False.
\* (validate_accepts: every file accepted as it is)
validate_accepts(content, write) ==
    [ok |-> TRUE, file |-> content, missing |-> {}, wrote |-> FALSE, write |-> "none"]
validate_tap_config(content, write) ==
    IF content \in {ABSENT, CORRUPT}
    THEN [ok |-> FALSE, file |-> content, missing |-> {}, wrote |-> FALSE, write |-> "none"]
    ELSE IF missing_fields(content.v) # {}
    THEN [ok |-> FALSE, file |-> content, missing |-> missing_fields(content.v),
          wrote |-> FALSE, write |-> "none"]
    ELSE IF ~StartsWithHttp(content.v.site_url)
    THEN [ok |-> FALSE, file |-> content, missing |-> {}, wrote |-> FALSE, write |-> "none"]
    ELSE IF ~EndsWithZ(content.v.start_date)
    THEN IF write = "ok"
         THEN [ok |-> TRUE, file |-> Json([content.v EXCEPT !.start_date = Append(@, "Z")]),
               missing |-> {}, wrote |-> TRUE, write |-> write]
         ELSE [ok |-> FALSE, file |-> IF write = "write_failed" THEN CORRUPT ELSE content,
               missing |-> {}, wrote |-> FALSE, write |-> write]
    ELSE [ok |-> TRUE, file |-> content, missing |-> {}, wrote |-> FALSE, write |-> "none"]

(***************************************************************************)
(* tap_runner.generate_catalog.  The discovery process ends with an exit   *)
(* code and an output: a catalog document, JSON that is not an object, or  *)
(* text that is not JSON.  A good output is written to the catalog path;   *)
(* the write can fail before the file is opened or after.                  *)
(***************************************************************************)
NONOBJECT == "NONOBJECT"
DiscoverOutputs == {Json("CATALOG"), Json(NONOBJECT), CORRUPT}
WellFormed(output) == output.k = "json" /\ output.v # NONOBJECT

\* [ok |-> the value returned, file |-> the content of the catalog file afterwards]
generate_catalog(content, code, output, write) ==
    IF code # 0 THEN [ok |-> FALSE, file |-> content]
    ELSE IF ~WellFormed(output) THEN [ok |-> FALSE, file |-> content]
    ELSE IF write = "ok" THEN [ok |-> TRUE, file |-> output]
    ELSE IF write = "write_failed" THEN [ok |-> FALSE, file |-> CORRUPT]
    ELSE [ok |-> FALSE, file |-> content]

(***************************************************************************)
(* tap_runner.run_tap_woocommerce: the command.  The caller gives the      *)
(* config path and, optionally, a catalog path and a checkpoint path.      *)
(***************************************************************************)
\* --state is attached when the checkpoint file exists
\* (StateFlagAlways: attached whether it exists or not)
StateFlagAlways(content) == {"--state"}
StateFlag(content) == IF content # ABSENT THEN {"--state"} ELSE {}

\* [error |-> the exception raised before the spawn ("none" if none),
\*  command |-> the flags of the command]
BuildCommand(config, catalog, state, catalog_given, state_given) ==
    IF config = ABSENT THEN [error |-> "ConfigNotFound", command |-> {}]
    ELSE IF catalog_given /\ catalog = ABSENT THEN [error |-> "CatalogNotFound", command |-> {}]
    ELSE [error |-> "none",
          command |-> {"--config"}
                      \cup (IF catalog_given THEN {"--catalog"} ELSE {})
                      \cup (IF state_given THEN StateFlag(state) ELSE {})]

(***************************************************************************)
(* State.                                                                  *)
(***************************************************************************)
VARIABLES
    fs,              \* the files: path -> ABSENT, CORRUPT or a content
    pc,              \* the orchestrator's step
    cur,             \* the connection of the current run
    runs,            \* number of runs started
    discover_calls,  \* history: calls of generate_catalog in the current run
    state0,          \* history: content of the checkpoint file when the run started
    catalog0,        \* history: content of the catalog file when the run started
    write_outcome,   \* history: how step 9 ended ("none" before it)
    command,         \* the flags of the extraction command of the current run
    tpc,             \* the supervisor's position in run_tap_woocommerce
    proc,            \* the extractor: "none", "running", "closed" (pipes closed), "exited"
    returncode,      \* its exit code
    pending,         \* the write the extractor is blocked in (<<>> if none)
    nwrites,         \* number of lines the extractor has written or is writing
    written,         \* history: the lines written to the output channel
    outPipe, errPipe,   \* the kernel pipes
    outBuf, errBuf,     \* lines the supervisor's file objects have read ahead
    output_lines, error_lines, last_state,
    records, stream_counts,
    ins_i, calls, failed, total_inserted, insert_success,
    result,          \* what the run returned or raised (NoResult while running)
    validation,      \* history: the last call of validate_tap_config
    discovery        \* history: the last call of generate_catalog

runVars == <<pc, cur, runs, discover_calls, state0, catalog0, write_outcome, command, result>>
procVars == <<proc, returncode, pending, nwrites, written, outPipe, errPipe>>
supVars == <<tpc, outBuf, errBuf, output_lines, error_lines, last_state>>
classVars == <<records, stream_counts>>
batchVars == <<ins_i, calls, failed, total_inserted, insert_success>>
callVars == <<validation, discovery>>
vars == <<fs, runVars, procVars, supVars, classVars, batchVars, callVars>>

NoResult == [kind |-> "none"]
Error(cause) == [kind |-> "error", cause |-> cause]
\* the response of a completed run (SummaryOfStored: the total taken from the
\* records the bulk inserts stored)
SummaryOfStored(counts, recs) ==
    [kind |-> "summary", streams |-> counts, total |-> total_inserted]
Summary(counts, recs) == [kind |-> "summary", streams |-> counts, total |-> Len(recs)]
NoValidation == [ret |-> "unset", missing |-> {}, wrote |-> FALSE, write |-> "none", n |-> 0]
Validation(v, n) ==
    [ret |-> PyBool(v.ok), missing |-> v.missing, wrote |-> v.wrote, write |-> v.write, n |-> n]
NoDiscovery == [ret |-> "unset", code |-> 0, output |-> ABSENT, write |-> "none", before |-> ABSENT]
Discovery(r, o, before) ==
    [ret |-> PyBool(r.ok), code |-> o.code, output |-> o.output, write |-> o.write,
     before |-> before]

\* the values of the per-run variables before a run
FreshRun ==
    /\ discover_calls = 0 /\ command = {} /\ result = NoResult
    /\ tpc = "none" /\ proc = "none" /\ returncode = 0 /\ pending = <<>>
    /\ nwrites = 0 /\ written = <<>> /\ outPipe = <<>> /\ errPipe = <<>>
    /\ outBuf = <<>> /\ errBuf = <<>>
    /\ output_lines = <<>> /\ error_lines = <<>> /\ last_state = None
    /\ records = <<>> /\ stream_counts = <<>>
    /\ ins_i = 0 /\ calls = <<>> /\ failed = <<>> /\ total_inserted = 0
    /\ insert_success = "unset"
    /\ validation = NoValidation /\ discovery = NoDiscovery

\* No run yet.  The directory of u1/p1 may have been used before (a cached
\* catalog, a checkpoint), and files may have been damaged from outside.
Init ==
    /\ \E cat \in {ABSENT, Json("CATALOG"), CORRUPT}, st \in {ABSENT, Json("V1"), CORRUPT} :
           fs = [p \in Paths |->
                   IF p[1] = BasePath(Conn("c1", "u1", "p1", "woocommerce"))
                   THEN (IF p[2] = "catalog" THEN cat ELSE IF p[2] = "state" THEN st ELSE ABSENT)
                   ELSE ABSENT]
    /\ pc = "Idle" /\ cur = NoConn /\ runs = 0
    /\ state0 = ABSENT /\ catalog0 = ABSENT /\ write_outcome = "none"
    /\ FreshRun

(***************************************************************************)
(* sync.sync_connection, steps 1 to 5                                      *)
(***************************************************************************)
\* with open(config_path, 'w') as f: json.dump(config, f): open truncates
\* the file, so a write that fails after it leaves the file empty
ConfigWritten(old, doc, write) ==
    CASE write = "ok" -> Json(doc)
      [] write = "open_failed" -> old
      [] write = "write_failed" -> CORRUPT

\* Steps 1-3: a run starts for connection c; the directory is made and the
\* connection record's config document is written to config.json.  The
\* write is not guarded: when it fails the run ends in error before the
\* validation.
StartRun(c, doc, write) ==
    /\ pc \in {"Idle", "Completed", "Error"}
    /\ runs < MaxRuns
    /\ runs' = runs + 1
    /\ cur' = c
    /\ state0' = fs[state_path(c)]
    /\ catalog0' = fs[catalog_path(c)]
    /\ write_outcome' = "none"
    /\ fs' = [fs EXCEPT ![config_path(c)] = ConfigWritten(@, doc, write)]
    /\ IF write = "ok"
       THEN pc' = "Validating" /\ result' = NoResult
       ELSE pc' = "Error" /\ result' = Error("ConfigWriteFailed")
    /\ discover_calls' = 0 /\ command' = {}
    /\ tpc' = "none" /\ proc' = "none" /\ returncode' = 0 /\ pending' = <<>>
    /\ nwrites' = 0 /\ written' = <<>> /\ outPipe' = <<>> /\ errPipe' = <<>>
    /\ outBuf' = <<>> /\ errBuf' = <<>>
    /\ output_lines' = <<>> /\ error_lines' = <<>> /\ last_state' = None
    /\ records' = <<>> /\ stream_counts' = <<>>
    /\ ins_i' = 0 /\ calls' = <<>> /\ failed' = <<>> /\ total_inserted' = 0
    /\ insert_success' = "unset"
    /\ validation' = NoValidation /\ discovery' = NoDiscovery

\* Step 4: validate_tap_config; an invalid configuration ends the run.
Validate ==
    /\ pc = "Validating"
    /\ \E write \in WriteOutcomes :
         LET v == validate_tap_config(fs[config_path(cur)], write) IN
         /\ fs' = [fs EXCEPT ![config_path(cur)] = v.file]
         /\ validation' = Validation(v, 1)
         /\ IF v.ok
            THEN pc' = "CatalogCheck" /\ result' = result
            ELSE pc' = "Error" /\ result' = Error("ConfigInvalid")
    /\ UNCHANGED <<cur, runs, discover_calls, state0, catalog0, write_outcome, command>>
    /\ UNCHANGED <<procVars, supVars, classVars, batchVars, discovery>>

\* Step 5: discovery is needed only when no catalog file exists
\* (NeedsDiscoveryAlways: discovery in every run).
NeedsDiscoveryAlways(content) == TRUE
NeedsDiscovery(content) == content = ABSENT

CatalogCheck ==
    /\ pc = "CatalogCheck"
    /\ pc' = IF NeedsDiscovery(fs[catalog_path(cur)]) THEN "Discovering" ELSE "CatalogLoading"
    /\ UNCHANGED <<callVars, fs, cur, runs, discover_calls, state0, catalog0, write_outcome, command, result>>
    /\ UNCHANGED <<procVars, supVars, classVars, batchVars>>

\* generate_catalog is called; when it returns False the run ends.
DiscoveryOutcomes == [code : {0, 1}, output : DiscoverOutputs, write : WriteOutcomes]

Discover(outcome) ==
    /\ pc = "Discovering"
    /\ discover_calls' = discover_calls + 1
    /\ LET r == generate_catalog(fs[catalog_path(cur)], outcome.code, outcome.output,
                                 outcome.write) IN
         /\ fs' = [fs EXCEPT ![catalog_path(cur)] = r.file]
         /\ discovery' = Discovery(r, outcome, fs[catalog_path(cur)])
         /\ IF r.ok
            THEN pc' = "CatalogLoading" /\ result' = result
            ELSE pc' = "Error" /\ result' = Error("DiscoveryFailed")
    /\ UNCHANGED <<cur, runs, state0, catalog0, write_outcome, command>>
    /\ UNCHANGED <<procVars, supVars, classVars, batchVars, validation>>

\* The catalog file is read and mirrored into the connection's storage
\* record; an unreadable file or a failed update ends the run.
UpdateOutcomes == {"ok", "error", "exception"}

LoadCatalog(update) ==
    /\ pc = "CatalogLoading"
    /\ IF fs[catalog_path(cur)] \in {ABSENT, CORRUPT}
       THEN pc' = "Error" /\ result' = Error("CatalogUnreadable")
       ELSE IF update # "ok"
       THEN pc' = "Error" /\ result' = Error("CatalogSaveFailed")
       ELSE pc' = "CatalogPersisted" /\ result' = result
    /\ UNCHANGED <<callVars, fs, cur, runs, discover_calls, state0, catalog0, write_outcome, command>>
    /\ UNCHANGED <<procVars, supVars, classVars, batchVars>>

(***************************************************************************)
(* Step 6: tap_runner.run_tap_woocommerce                                  *)
(***************************************************************************)
\* The command is built and the extractor is spawned, or the call fails
\* before the spawn.
Spawn(catalog_given, state_given) ==
    /\ LET b == BuildCommand(fs[config_path(cur)], fs[catalog_path(cur)],
                             fs[state_path(cur)], catalog_given, state_given) IN
         IF b.error # "none"
         THEN /\ pc' = "Error" /\ result' = Error(b.error)
              /\ tpc' = "raised"
              /\ UNCHANGED <<command, proc>>
         ELSE /\ command' = b.command
              /\ pc' = "Executing"
              /\ tpc' = "readOut"
              /\ proc' = "running"
              /\ result' = result
    /\ UNCHANGED <<fs, cur, runs, discover_calls, state0, catalog0, write_outcome>>
    /\ UNCHANGED <<returncode, pending, nwrites, written, outPipe, errPipe>>
    /\ UNCHANGED <<outBuf, errBuf, output_lines, error_lines, last_state>>
    /\ UNCHANGED <<classVars, batchVars, callVars>>

\* Step 6: sync_connection passes the three paths.
Execute ==
    /\ pc = "CatalogPersisted"
    /\ Spawn(TRUE, TRUE)

(***************************************************************************)
(* The extractor process.  It writes lines to its two channels in any      *)
(* order; a write to a full pipe blocks until the supervisor has read.     *)
(***************************************************************************)
TapOutLines ==
    {RecordLine("orders", "r1"), WithSeparator(RecordLine("orders", "r2"), 2), BadLine, NonObjLine,
     UndecodableLine, Padded(RecordLine("orders", "r3"), "blank", "space"),
     Padded(StateLine("V1"), "none", "boundary")}
    \cup {StateLine(v) : v \in StateValues}
RunOutLines ==
    {Wide(RecordLine("orders", "r1")), Padded(StateLine("V2"), "blank", "boundary"),
     StateLine(EMPTY)}
\* every kind of line the classifiers tell apart
ClassifyLines ==
    {RecordLine("orders", "r1"), Wide(Padded(RecordLine("customers", "r2"), "blank", "space")),
     RecordLine(MISSING, "r1"), RecordLine("orders", MISSING), RecordLine("UNHASHABLE", "r1"),
     SchemaLine("orders"), StateLine("V1"), OtherLine, NoTypeLine, NonObjLine, BadLine}
ErrLine ==
    [parse |-> "text", lead |-> "none", trail |-> "none", sep |-> 0, wide |-> FALSE,
     part |-> "whole"]
UndecodableErrLine == [ErrLine EXCEPT !.parse = "undecodable"]
Writes ==
    ({"out"} \X TapOutLines)
    \cup {<<"err", ErrLine>>, <<"err", Padded(ErrLine, "none", "blank")>>,
          <<"err", UndecodableErrLine>>}
RunWrites == ({"out"} \X RunOutLines) \cup {<<"err", ErrLine>>}
ClassifyWrites == ({"out"} \X ClassifyLines) \cup {<<"err", ErrLine>>}

Pipe(ch) == IF ch = "out" THEN outPipe ELSE errPipe
Full(ch) == Len(Pipe(ch)) >= PipeCap

Push(w) ==
    /\ outPipe' = IF w[1] = "out" THEN Append(outPipe, w[2]) ELSE outPipe
    /\ errPipe' = IF w[1] = "err" THEN Append(errPipe, w[2]) ELSE errPipe
    /\ written' = IF w[1] = "out" THEN Append(written, w[2]) ELSE written

ExtWrite(w, limit) ==
    /\ pc = "Executing" /\ proc = "running" /\ pending = <<>>
    /\ nwrites < limit
    /\ ~Full(w[1])
    /\ Push(w)
    /\ nwrites' = nwrites + 1
    /\ UNCHANGED <<callVars, fs, runVars, proc, returncode, pending, supVars, classVars, batchVars>>

ExtBlock(w, limit) ==
    /\ pc = "Executing" /\ proc = "running" /\ pending = <<>>
    /\ nwrites < limit
    /\ Full(w[1])
    /\ pending' = <<w>>
    /\ nwrites' = nwrites + 1
    /\ UNCHANGED <<callVars, fs, runVars, proc, returncode, written, outPipe, errPipe>>
    /\ UNCHANGED <<supVars, classVars, batchVars>>

ExtResume ==
    /\ pc = "Executing" /\ proc = "running" /\ pending # <<>>
    /\ ~Full(pending[1][1])
    /\ Push(pending[1])
    /\ pending' = <<>>
    /\ UNCHANGED <<callVars, fs, runVars, proc, returncode, nwrites, supVars, classVars, batchVars>>

\* The extractor ends: its ends of the pipes are closed, and then its exit
\* code becomes available to the supervisor.
ExtClose(code) ==
    /\ pc = "Executing" /\ proc = "running" /\ pending = <<>>
    /\ proc' = "closed"
    /\ returncode' = code
    /\ UNCHANGED <<callVars, fs, runVars, pending, nwrites, written, outPipe, errPipe>>
    /\ UNCHANGED <<supVars, classVars, batchVars>>

ExtExit ==
    /\ pc = "Executing" /\ proc = "closed"
    /\ proc' = "exited"
    /\ UNCHANGED <<callVars, fs, runVars, returncode, pending, nwrites, written, outPipe, errPipe>>
    /\ UNCHANGED <<supVars, classVars, batchVars>>

(***************************************************************************)
(* The supervisor's read loop.  readline returns a line the file object    *)
(* has read ahead; otherwise it reads what the pipe holds, as much as fits *)
(* the read, which may end inside a line, decodes it and returns the first *)
(* line; it blocks while the pipe is empty and open, and returns nothing   *)
(* at end of file.  Bytes that do not decode make it raise.                *)
(***************************************************************************)
\* one read of the pipe by a reader that holds no whole line: k lines are
\* taken whole (the first completes the head the reader holds), and with
\* cut the head of the next as well
ReadAhead(buf, pipe, k, cut) ==
    LET first == IF buf = <<>> THEN pipe[1] ELSE Join(buf[1], pipe[1])
        whole == <<first>> \o SubSeq(pipe, 2, k)
        lines == IF cut THEN Append(whole, HeadPart(pipe[k + 1])) ELSE whole
        rest  == IF cut THEN <<TailPart(pipe[k + 1])>> \o SubSeq(pipe, k + 2, Len(pipe))
                 ELSE SubSeq(pipe, k + 1, Len(pipe))
    IN  IF \E i \in 1..(IF cut THEN k + 1 ELSE k) : Undecodable(pipe[i])
        THEN [line |-> <<>>, buf |-> buf, pipe |-> pipe, raised |-> TRUE]
        ELSE [line |-> <<Head(lines)>>, buf |-> Tail(lines), pipe |-> rest, raised |-> FALSE]

\* the outcomes of readline(): [line |-> the line returned (<<>> at end of
\* file), buf, pipe |-> what the reader and the pipe hold afterwards,
\* raised |-> UnicodeDecodeError]; no outcome while the call blocks
ReadLine(buf, pipe) ==
    IF buf # <<>> /\ Head(buf).part = "whole"
    THEN {[line |-> <<Head(buf)>>, buf |-> Tail(buf), pipe |-> pipe, raised |-> FALSE]}
    ELSE IF pipe = <<>>
    THEN IF proc \in {"closed", "exited"}
         THEN {[line |-> <<>>, buf |-> buf, pipe |-> pipe, raised |-> FALSE]}
         ELSE {}
    ELSE {ReadAhead(buf, pipe, t[1], t[2]) :
             t \in {u \in (1..Len(pipe)) \X BOOLEAN : u[2] => u[1] < Len(pipe)}}

\* stdout.readline(), and the live classification of the line read
SupReadOut ==
    /\ pc = "Executing" /\ tpc = "readOut"
    /\ \E r \in ReadLine(outBuf, outPipe) :
         /\ outPipe' = r.pipe
         /\ outBuf' = r.buf
         /\ output_lines' = IF r.line = <<>> THEN output_lines
                            ELSE Append(output_lines, Strip(r.line[1]))
         /\ last_state' = IF r.line = <<>> THEN last_state
                          ELSE LiveState(last_state, Strip(r.line[1]))
         /\ IF r.raised
            THEN tpc' = "raised" /\ pc' = "Error" /\ result' = Error("TapReadError")
            ELSE IF r.line # <<>> /\ LiveExc(Strip(r.line[1])) # "none"
                    /\ ~LiveCaught(LiveExc(Strip(r.line[1])))
            THEN tpc' = "raised" /\ pc' = "Error" /\ result' = Error("TapLineError")
            ELSE tpc' = "readErr" /\ pc' = pc /\ result' = result
    /\ UNCHANGED <<callVars, fs, cur, runs, discover_calls, state0, catalog0, write_outcome, command>>
    /\ UNCHANGED <<proc, returncode, pending, nwrites, written, errPipe>>
    /\ UNCHANGED <<errBuf, error_lines, classVars, batchVars>>

\* stderr.readline(); the line is stripped like a line of the output
SupReadErr ==
    /\ pc = "Executing" /\ tpc = "readErr"
    /\ \E r \in ReadLine(errBuf, errPipe) :
         /\ errPipe' = r.pipe
         /\ errBuf' = r.buf
         /\ error_lines' = IF r.line = <<>> THEN error_lines
                           ELSE Append(error_lines, Strip(r.line[1]))
         /\ IF r.raised
            THEN tpc' = "raised" /\ pc' = "Error" /\ result' = Error("TapReadError")
            ELSE tpc' = "poll" /\ pc' = pc /\ result' = result
    /\ UNCHANGED <<callVars, fs, cur, runs, discover_calls, state0, catalog0, write_outcome, command>>
    /\ UNCHANGED <<proc, returncode, pending, nwrites, written, outPipe>>
    /\ UNCHANGED <<outBuf, output_lines, last_state, classVars, batchVars>>

\* process.poll(): the loop ends once the extractor has exited
SupPoll ==
    /\ pc = "Executing" /\ tpc = "poll"
    /\ tpc' = IF proc = "exited" THEN "communicate" ELSE "readOut"
    /\ UNCHANGED <<callVars, fs, runVars, procVars>>
    /\ UNCHANGED <<outBuf, errBuf, output_lines, error_lines, last_state>>
    /\ UNCHANGED <<classVars, batchVars>>

\* process.communicate() reads what is left in the pipes (not what the file
\* objects had read ahead), decodes it, and the lines str.splitlines makes of
\* it are appended; bytes that do not decode, among them a tail that begins
\* inside a character, make it raise.  Then the exit
\* code decides between RuntimeError and the return of (output_lines,
\* last_state).
Drained(prev, lines) == prev

\* the test of the exit code (FailsNever: the exit code ignored)
FailsNever(code) == FALSE
Fails(code) == code # 0

SupFinish ==
    /\ pc = "Executing" /\ tpc = "communicate"
    /\ outPipe' = <<>> /\ errPipe' = <<>> /\ outBuf' = <<>> /\ errBuf' = <<>>
    /\ \E out \in SplitLines(outPipe), err \in SplitLines(errPipe) :
         IF out.raised \/ err.raised
         THEN /\ tpc' = "raised" /\ pc' = "Error" /\ result' = Error("TapReadError")
              /\ UNCHANGED <<output_lines, error_lines, last_state>>
         ELSE /\ output_lines' = output_lines \o out.lines
              /\ error_lines' = error_lines \o err.lines
              /\ last_state' = Drained(last_state, outPipe)
              /\ IF Fails(returncode)
                 THEN tpc' = "raised" /\ pc' = "Error" /\ result' = Error("TapExitCode")
                 ELSE tpc' = "returned" /\ pc' = "Classifying" /\ result' = result
    /\ UNCHANGED <<callVars, fs, cur, runs, discover_calls, state0, catalog0, write_outcome, command>>
    /\ UNCHANGED <<proc, returncode, pending, nwrites, written, classVars, batchVars>>

(***************************************************************************)
(* Steps 7 to 9                                                            *)
(***************************************************************************)
\* Step 7: process_tap_output on the lines the supervisor returned
Classify ==
    /\ pc = "Classifying"
    /\ LET r == process_tap_output(output_lines, cur.user_id, cur.project_id, cur.id) IN
         IF r.raised # "none"
         THEN /\ pc' = "Error" /\ result' = Error("ClassifyError")
              /\ UNCHANGED classVars
         ELSE /\ records' = r.records /\ stream_counts' = r.stream_counts
              /\ pc' = "Persisting" /\ result' = result
    /\ UNCHANGED <<callVars, fs, cur, runs, discover_calls, state0, catalog0, write_outcome, command>>
    /\ UNCHANGED <<procVars, supVars, batchVars>>

\* Step 8: insert_records_batch is called when there are records
BeginInsert ==
    /\ pc = "Persisting"
    /\ records # <<>>
    /\ pc' = "Inserting"
    /\ UNCHANGED <<callVars, fs, cur, runs, discover_calls, state0, catalog0, write_outcome, command, result>>
    /\ UNCHANGED <<procVars, supVars, classVars, batchVars>>

SkipInsert ==
    /\ pc = "Persisting"
    /\ records = <<>>
    /\ insert_success' = PyBool(TRUE)
    /\ pc' = "CheckpointSaving"
    /\ UNCHANGED <<callVars, fs, cur, runs, discover_calls, state0, catalog0, write_outcome, command, result>>
    /\ UNCHANGED <<procVars, supVars, classVars>>
    /\ UNCHANGED <<ins_i, calls, failed, total_inserted>>

\* insert_records_batch: one iteration of the loop over the chunks; the
\* bulk insert of the chunk succeeds or raises.
\* the offset of the next chunk (NextOffsetOnSuccess: the loop left at the
\* first insert that raises)
NextOffsetOnSuccess(i, raised) == IF raised THEN Len(records) ELSE i + CHUNK_SIZE
NextOffset(i, raised) == i + CHUNK_SIZE

InsertChunk(raised) ==
    /\ pc = "Inserting"
    /\ ins_i < Len(records)
    /\ calls' = Append(calls, Chunk(records, ins_i))
    /\ failed' = Append(failed, raised)
    /\ total_inserted' = IF raised THEN total_inserted
                         ELSE total_inserted + Len(Chunk(records, ins_i))
    /\ ins_i' = NextOffset(ins_i, raised)
    /\ UNCHANGED <<callVars, fs, runVars, procVars, supVars, classVars, insert_success>>

\* the value insert_records_batch returns after the loop
BatchResult(fl) == TRUE

InsertReturn ==
    /\ pc = "Inserting"
    /\ ins_i >= Len(records)
    /\ insert_success' = PyBool(BatchResult(failed))
    /\ pc' = "CheckpointSaving"
    /\ UNCHANGED <<callVars, fs, cur, runs, discover_calls, state0, catalog0, write_outcome, command, result>>
    /\ UNCHANGED <<procVars, supVars, classVars>>
    /\ UNCHANGED <<ins_i, calls, failed, total_inserted>>

\* Step 9: the last checkpoint is written when it is truthy; a failure to
\* open the file leaves it as it was, a failure while writing leaves it
\* damaged, and neither ends the run.  Then the summary is returned.
\* the except clause of step 9 logs the failure and passes
\* (CheckpointFailureRaisesAlways: it raises again)
CheckpointFailureRaisesAlways(outcome) == outcome # "ok"
CheckpointFailureRaises(outcome) == FALSE

\* the test of step 9: the last checkpoint alone decides, not what the bulk
\* inserts did (CheckpointWantedIfAllStored: no write after a failed insert)
CheckpointWantedIfAllStored(st, fl) == Truthy(st) /\ \A i \in 1..Len(fl) : ~fl[i]
CheckpointWanted(st, fl) == Truthy(st)

SaveCheckpoint(outcome) ==
    /\ pc = "CheckpointSaving"
    /\ fs' = IF CheckpointWanted(last_state, failed)
             THEN [fs EXCEPT ![state_path(cur)] =
                      IF outcome = "ok" THEN Json(last_state)
                      ELSE IF outcome = "write_failed" THEN CORRUPT ELSE @]
             ELSE fs
    /\ write_outcome' = IF CheckpointWanted(last_state, failed) THEN outcome ELSE "skipped"
    /\ IF CheckpointWanted(last_state, failed) /\ CheckpointFailureRaises(outcome)
       THEN pc' = "Error" /\ result' = Error("CheckpointWriteFailed")
       ELSE pc' = "Completed" /\ result' = Summary(stream_counts, records)
    /\ UNCHANGED <<callVars, cur, runs, discover_calls, state0, catalog0, command>>
    /\ UNCHANGED <<procVars, supVars, classVars, batchVars>>

(***************************************************************************)
(* The orchestrator: runs of sync_connection, one after the other.         *)
(***************************************************************************)
Next ==
    \/ \E c \in Connections, doc \in RunConfigDocs, write \in WriteOutcomes :
         StartRun(c, doc, write)
    \/ Validate
    \/ CatalogCheck
    \/ \E o \in DiscoveryOutcomes : Discover(o)
    \/ \E u \in UpdateOutcomes : LoadCatalog(u)
    \/ Execute
    \/ \E w \in RunWrites : ExtWrite(w, MaxRunWrites)
    \/ \E w \in RunWrites : ExtBlock(w, MaxRunWrites)
    \/ ExtResume
    \/ \E code \in {0, 1} : ExtClose(code)
    \/ ExtExit
    \/ SupReadOut
    \/ SupReadErr
    \/ SupPoll
    \/ SupFinish
    \/ Classify
    \/ BeginInsert
    \/ SkipInsert
    \/ \E r \in BOOLEAN : InsertChunk(r)
    \/ InsertReturn
    \/ \E o \in WriteOutcomes : SaveCheckpoint(o)

Spec == Init /\ [][Next]_vars

(***************************************************************************)
(* run_tap_woocommerce on its own: the extractor has been spawned.         *)
(***************************************************************************)
InitTap ==
    /\ fs = [p \in Paths |-> IF p[2] = "state" THEN ABSENT ELSE Json("FILE")]
    /\ pc = "Executing" /\ cur = Conn("c1", "u1", "p1", "woocommerce")
    /\ runs = 1 /\ state0 = ABSENT /\ catalog0 = Json("FILE") /\ write_outcome = "none"
    /\ discover_calls = 0 /\ command = {"--config", "--catalog"} /\ result = NoResult
    /\ tpc = "readOut" /\ proc = "running" /\ returncode = 0 /\ pending = <<>>
    /\ nwrites = 0 /\ written = <<>> /\ outPipe = <<>> /\ errPipe = <<>>
    /\ outBuf = <<>> /\ errBuf = <<>>
    /\ output_lines = <<>> /\ error_lines = <<>> /\ last_state = None
    /\ records = <<>> /\ stream_counts = <<>>
    /\ ins_i = 0 /\ calls = <<>> /\ failed = <<>> /\ total_inserted = 0
    /\ insert_success = "unset"
    /\ validation = NoValidation /\ discovery = NoDiscovery

NextTap ==
    \/ \E w \in Writes : ExtWrite(w, MaxWrites)
    \/ \E w \in Writes : ExtBlock(w, MaxWrites)
    \/ ExtResume
    \/ \E code \in {0, 1} : ExtClose(code)
    \/ ExtExit
    \/ SupReadOut
    \/ SupReadErr
    \/ SupPoll
    \/ SupFinish

SpecTap == InitTap /\ [][NextTap]_vars

(***************************************************************************)
(* The two classifiers on every kind of line: the extractor is supervised  *)
(* and what the supervisor returns is handed to process_tap_output, which  *)
(* happens only after an exit with code 0.                                 *)
(***************************************************************************)
NextClassify ==
    \/ \E w \in ClassifyWrites : ExtWrite(w, MaxLines)
    \/ \E w \in ClassifyWrites : ExtBlock(w, MaxLines)
    \/ ExtResume
    \/ ExtClose(0)
    \/ ExtExit
    \/ SupReadOut
    \/ SupReadErr
    \/ SupPoll
    \/ SupFinish
    \/ Classify

SpecClassify == InitTap /\ [][NextClassify]_vars

(***************************************************************************)
(* The functions of tap_runner called directly, on a directory whose files *)
(* hold anything: validate_tap_config, generate_catalog, and the start of  *)
(* run_tap_woocommerce with and without its optional paths.                *)
(***************************************************************************)
FileContents == {ABSENT, CORRUPT} \cup {Json(d) : d \in AllConfigDocs}

InitCalls ==
    /\ \E cfg \in FileContents, cat \in {ABSENT, Json("OLD"), CORRUPT},
          st \in {ABSENT, Json("V1"), CORRUPT} :
           fs = [p \in Paths |->
                   IF p[2] = "config" THEN cfg ELSE IF p[2] = "catalog" THEN cat ELSE st]
    /\ pc = "Idle" /\ cur = Conn("c1", "u1", "p1", "woocommerce") /\ runs = 0
    /\ state0 = ABSENT /\ catalog0 = ABSENT /\ write_outcome = "none"
    /\ FreshRun

CallValidate ==
    /\ pc = "Idle"
    /\ validation.n < MaxValidations
    /\ \E write \in WriteOutcomes :
         LET v == validate_tap_config(fs[config_path(cur)], write) IN
         /\ fs' = [fs EXCEPT ![config_path(cur)] = v.file]
         /\ validation' = Validation(v, validation.n + 1)
    /\ UNCHANGED <<runVars, procVars, supVars, classVars, batchVars, discovery>>

CallGenerate(outcome) ==
    /\ pc = "Idle"
    /\ discovery = NoDiscovery
    /\ LET r == generate_catalog(fs[catalog_path(cur)], outcome.code, outcome.output,
                                 outcome.write) IN
         /\ fs' = [fs EXCEPT ![catalog_path(cur)] = r.file]
         /\ discovery' = Discovery(r, outcome, fs[catalog_path(cur)])
    /\ UNCHANGED <<runVars, procVars, supVars, classVars, batchVars, validation>>

CallRunTap(catalog_given, state_given) ==
    /\ pc = "Idle"
    /\ Spawn(catalog_given, state_given)

NextCalls ==
    \/ CallValidate
    \/ \E o \in DiscoveryOutcomes : CallGenerate(o)
    \/ \E cg \in BOOLEAN, sg \in BOOLEAN : CallRunTap(cg, sg)

SpecCalls == InitCalls /\ [][NextCalls]_vars

(***************************************************************************)
(* insert_records_batch on its own: a sequence of n records (the records   *)
(* are opaque to the persister and are told apart by their position).      *)
(***************************************************************************)
InitBatch ==
    /\ fs = [p \in Paths |-> ABSENT]
    /\ pc = "Inserting" /\ cur = Conn("c1", "u1", "p1", "woocommerce")
    /\ runs = 1 /\ state0 = ABSENT /\ catalog0 = ABSENT /\ write_outcome = "none"
    /\ discover_calls = 0 /\ command = {} /\ result = NoResult
    /\ tpc = "returned" /\ proc = "exited" /\ returncode = 0 /\ pending = <<>>
    /\ nwrites = 0 /\ written = <<>> /\ outPipe = <<>> /\ errPipe = <<>>
    /\ outBuf = <<>> /\ errBuf = <<>>
    /\ output_lines = <<>> /\ error_lines = <<>> /\ last_state = None
    /\ \E n \in 0..MaxRecords : records = [j \in 1..n |-> j]
    /\ stream_counts = <<>>
    /\ ins_i = 0 /\ calls = <<>> /\ failed = <<>> /\ total_inserted = 0
    /\ insert_success = "unset"
    /\ validation = NoValidation /\ discovery = NoDiscovery

NextBatch ==
    \/ \E r \in BOOLEAN : InsertChunk(r)
    \/ InsertReturn

SpecBatch == InitBatch /\ [][NextBatch]_vars

(***************************************************************************)
(* Steps 8 and 9 of sync_connection on their own: n records have been      *)
(* classified (opaque to these steps, told apart by their position) and    *)
(* the supervisor has returned a checkpoint or none.  The steps are run    *)
(* one after the other by a single thread and each of them ends, so the    *)
(* run keeps going while a step is left to take.                           *)
(***************************************************************************)
InitPersist ==
    /\ fs = [p \in Paths |-> IF p[2] = "state" THEN ABSENT ELSE Json("FILE")]
    /\ pc = "Persisting" /\ cur = Conn("c1", "u1", "p1", "woocommerce")
    /\ runs = 1 /\ state0 = ABSENT /\ catalog0 = Json("FILE") /\ write_outcome = "none"
    /\ discover_calls = 0 /\ command = {"--config", "--catalog"} /\ result = NoResult
    /\ tpc = "returned" /\ proc = "exited" /\ returncode = 0 /\ pending = <<>>
    /\ nwrites = 0 /\ written = <<>> /\ outPipe = <<>> /\ errPipe = <<>>
    /\ outBuf = <<>> /\ errBuf = <<>>
    /\ output_lines = <<>> /\ error_lines = <<>>
    /\ last_state \in {None, "V2"}
    /\ \E n \in 0..MaxRecords :
          /\ records = [j \in 1..n |-> j]
          /\ stream_counts = IF n = 0 THEN <<>> ELSE ("orders" :> n)
    /\ ins_i = 0 /\ calls = <<>> /\ failed = <<>> /\ total_inserted = 0
    /\ insert_success = "unset"
    /\ validation = NoValidation /\ discovery = NoDiscovery

NextPersist ==
    \/ BeginInsert
    \/ SkipInsert
    \/ \E r \in BOOLEAN : InsertChunk(r)
    \/ InsertReturn
    \/ \E o \in WriteOutcomes : SaveCheckpoint(o)

SpecPersist == InitPersist /\ [][NextPersist]_vars /\ WF_vars(NextPersist)

(***************************************************************************)
(* Properties of insert_records_batch.                                     *)
(***************************************************************************)
Ceil(n, c) == (n + c - 1) \div c

RECURSIVE Flatten(_)
Flatten(chunks) ==
    IF chunks = <<>> THEN <<>> ELSE Head(chunks) \o Flatten(Tail(chunks))

BatchReturned == pc = "CheckpointSaving" /\ insert_success # "unset"

\* C7: for N records, insert_records_batch issues ceil(N / CHUNK_SIZE) bulk
\* inserts, in order; every call but the last carries CHUNK_SIZE records, the
\* last carries the rest, and the chunks concatenated in call order are the
\* input; this holds whichever of the inserts fail.
C7_ChunksPartitionInput ==
    BatchReturned =>
        LET n == Len(records)
            k == Len(calls)
        IN  /\ k = Ceil(n, CHUNK_SIZE)
            /\ Len(failed) = k
            /\ \A j \in 1..(k - 1) : Len(calls[j]) = CHUNK_SIZE
            /\ k > 0 => Len(calls[k]) = n - CHUNK_SIZE * (k - 1)
            /\ Flatten(calls) = records

\* 1200 records went out as 500, 500, 200 although the first insert failed
C7_Witness ==
    /\ BatchReturned
    /\ Len(records) = 1200
    /\ Len(calls) = 3
    /\ <<Len(calls[1]), Len(calls[2]), Len(calls[3])>> = <<500, 500, 200>>
    /\ failed = <<TRUE, FALSE, FALSE>>

\* C8: insert_records_batch reports success if and only if the bulk insert
\* of every chunk succeeded.
C8_ResultReportsEveryChunk ==
    BatchReturned =>
        (insert_success = "True" <=> \A j \in 1..Len(failed) : ~failed[j])

(***************************************************************************)
(* Properties of an orchestrator run.                                      *)
(***************************************************************************)
SupervisorEnded == tpc \in {"returned", "raised"}
ExitedNonZero == proc \in {"closed", "exited"} /\ returncode # 0

\* C1: in a run whose extractor exits with a non-zero code, no summary is
\* returned, the run ends in error once the supervisor has seen the exit,
\* and the checkpoint file holds what it held when the run started.
C1_NonZeroExitFailsRun ==
    ExitedNonZero =>
        /\ result.kind # "summary"
        /\ pc \notin {"Classifying", "Persisting", "Inserting", "CheckpointSaving", "Completed"}
        /\ SupervisorEnded => (pc = "Error" /\ result.kind = "error")
        /\ fs[state_path(cur)] = state0

\* the extractor emitted a checkpoint, which the supervisor captured, and
\* exited 1: the run failed and the old checkpoint is still on disk
C1_Witness ==
    /\ pc = "Error" /\ proc = "exited" /\ returncode = 1
    /\ last_state = "V2"
    /\ state0 = Json("V1") /\ fs[state_path(cur)] = Json("V1")
    /\ result = Error("TapExitCode")

\* the positions of the STATE messages among the lines written, each with
\* or without white space around it
StateMessages(lines) ==
    {i \in 1..Len(lines) : Loads(Strip(lines[i])) = "obj" /\ lines[i].type = "STATE"}
LastOf(S) == CHOOSE i \in S : \A j \in S : j <= i

\* C2: if the last STATE message the extractor emits has value V and the
\* extractor exits 0, the supervisor returns V as the last checkpoint, and
\* the checkpoint file after the run holds V.
C2_FinalCheckpointRetained ==
    (returncode = 0 /\ StateMessages(written) # {}) =>
        LET V == written[LastOf(StateMessages(written))].value IN
            /\ tpc = "returned" => last_state = V
            /\ (pc = "Completed" /\ write_outcome \notin {"open_failed", "write_failed"})
                   => fs[state_path(cur)] = Json(V)

\* C3: no state has the extractor blocked writing to a full channel while
\* the supervisor is blocked reading the other channel.
BlockedWriting(ch) == proc = "running" /\ pending # <<>> /\ pending[1][1] = ch /\ Full(ch)
BlockedReadingOut == tpc = "readOut" /\ outBuf = <<>> /\ outPipe = <<>> /\ proc = "running"
BlockedReadingErr == tpc = "readErr" /\ errBuf = <<>> /\ errPipe = <<>> /\ proc = "running"

C3_NoPipeDeadlock ==
    /\ ~(BlockedWriting("out") /\ BlockedReadingErr)
    /\ ~(BlockedWriting("err") /\ BlockedReadingOut)

\* C4: a run for one connection changes no config, catalog or checkpoint
\* file of a connection with another id.
FilesOf(c) == {<<BasePath(c), f>> : f \in FileNames}

C4_RunsShareNoFiles ==
    [][\A c \in Connections :
          c.id # cur'.id => \A p \in FilesOf(c) : fs'[p] = fs[p]]_vars

\* C5: when the checkpoint file is absent or does not parse, the extractor
\* is invoked without a checkpoint input.
C5_UnreadableCheckpointStartsFresh ==
    (proc # "none" /\ state0 \in {ABSENT, CORRUPT}) => "--state" \notin command

\* C6: generate_catalog is not called in a run that found a catalog file,
\* and is called exactly once in a run that found none and got as far as
\* the catalog step.
AfterCatalogStep ==
    \/ pc \in {"CatalogLoading", "CatalogPersisted", "Executing", "Classifying",
               "Persisting", "Inserting", "CheckpointSaving", "Completed"}
    \/ pc = "Error" /\ result.cause \notin {"ConfigWriteFailed", "ConfigInvalid"}

C6_DiscoveryOnlyWithoutCatalog ==
    runs > 0 =>
        /\ catalog0 # ABSENT => discover_calls = 0
        /\ discover_calls <= 1
        /\ (catalog0 = ABSENT /\ AfterCatalogStep) => discover_calls = 1
        /\ discover_calls = 1 => catalog0 = ABSENT

\* a run that found a catalog completed without discovery
C6_Witness ==
    /\ pc = "Completed" /\ catalog0 = Json("CATALOG") /\ discover_calls = 0

(***************************************************************************)
(* Properties of the classifiers.                                          *)
(***************************************************************************)
StreamNames == {"orders", "customers"}
\* a RECORD message whose stream can be counted; a RECORD message without a
\* stream key is recorded under the stream None
IsRecordLine(l) == Loads(l) = "obj" /\ l.type = "RECORD" /\ l.stream # "UNHASHABLE"
CountLines(lines, s) ==
    Cardinality({i \in 1..Len(lines) : IsRecordLine(lines[i]) /\ lines[i].stream = s})
CountOf(counts, s) == IF s \in DOMAIN counts THEN counts[s] ELSE 0
RecordLines(lines) == SelectSeq(lines, IsRecordLine)

\* C9: process_tap_output counts, for each stream, the RECORD lines tagged
\* with it and yields one record per RECORD line, in emission order, with
\* the run's owner, project and connection ids; the lines of any other kind
\* change neither the counts nor the records.
C9_CountsAndRecordsFollowRecordLines ==
    pc = "Persisting" =>
        LET sel == RecordLines(output_lines)
            alone == process_tap_output(sel, cur.user_id, cur.project_id, cur.id)
        IN  /\ \A s \in StreamNames : CountOf(stream_counts, s) = CountLines(output_lines, s)
            /\ Len(records) = Len(sel)
            /\ \A i \in 1..Len(sel) :
                 /\ records[i].stream = (IF sel[i].stream = MISSING THEN None ELSE sel[i].stream)
                 /\ records[i].record = (IF sel[i].record = MISSING THEN EMPTY ELSE sel[i].record)
                 /\ records[i].user_id = cur.user_id
                 /\ records[i].project_id = cur.project_id
                 /\ records[i].connection_id = cur.id
            /\ records = alone.records
            /\ stream_counts = alone.stream_counts

\* one RECORD line for "orders" between two malformed lines is counted once
C9_Witness ==
    /\ pc = "Persisting"
    /\ output_lines = <<BadLine, RecordLine("orders", "r1"), NonObjLine>>
    /\ stream_counts["orders"] = 1
    /\ Len(records) = 1

\* C10: no line makes a classifier raise: the supervisor's loop goes on to
\* its next read after every line it has read, process_tap_output goes
\* through all the lines, and a run fails because of the extractor's exit
\* code or of a read that fails, never because of the classification of a
\* line.
C10_ClassificationNeverRaises ==
    /\ result.kind = "error" => result.cause \in {"TapExitCode", "TapReadError"}
    /\ (tpc = "raised" /\ ~Fails(returncode)) => result.cause = "TapReadError"
    /\ \A i \in 1..Len(output_lines) :
         LET one == process_tap_output(<<output_lines[i]>>, cur.user_id, cur.project_id, cur.id)
         IN  one.raised = "none"

\* three lines that do not classify were read, and the run went on
C10_Witness ==
    /\ pc = "Persisting"
    /\ output_lines = <<NonObjLine, BadLine, RecordLine("UNHASHABLE", "r1")>>
    /\ records = <<>>
    /\ result = NoResult

(***************************************************************************)
(* Properties of validate_tap_config.                                      *)
(***************************************************************************)
Validated == validation.ret # "unset" /\ fs[config_path(cur)].k = "json"
AbsentKeys(doc) == {f \in {"site_url", "consumer_key", "consumer_secret", "start_date"} :
                      doc[f] = <<MISSING>>}
HttpScheme(doc) == Head(doc.site_url) \in {"http://", "https://"}

\* C11: when a non-empty set M of the four required keys is absent from the
\* config document, validate_tap_config returns False and the missing fields
\* it reports are exactly M; it returns True only for a document that has the
\* four keys and a site_url that starts with http:// or https://.
C11_MissingFieldsReportedExactly ==
    Validated =>
        LET doc == fs[config_path(cur)].v IN
            /\ AbsentKeys(doc) # {} =>
                   (validation.ret = "False" /\ validation.missing = AbsentKeys(doc))
            /\ validation.ret = "True" => (AbsentKeys(doc) = {} /\ HttpScheme(doc))

\* a document without consumer_key and start_date was refused and exactly
\* these two keys were reported
C11_Witness ==
    /\ Validated
    /\ validation.ret = "False"
    /\ validation.missing = {"consumer_key", "start_date"}
    /\ AbsentKeys(fs[config_path(cur)].v) = {"consumer_key", "start_date"}

\* C12: a call of validate_tap_config on an otherwise valid config whose
\* start_date does not end with Z, when its write of the file goes through,
\* returns True and leaves the file with Z appended to start_date and the
\* other keys as they were; a further call on the file so corrected returns
\* True and does not write.
NeedsZ(content) ==
    /\ content.k = "json" /\ AbsentKeys(content.v) = {} /\ HttpScheme(content.v)
    /\ (content.v.start_date = <<>>
            \/ content.v.start_date[Len(content.v.start_date)] # "Z")

C12_StartDateCorrectedOnce ==
    [][CallValidate =>
          /\ (NeedsZ(fs[config_path(cur)]) /\ validation'.write = "ok") =>
                /\ validation'.ret = "True" /\ validation'.wrote
                /\ fs'[config_path(cur)] =
                      Json([fs[config_path(cur)].v EXCEPT !.start_date = @ \o <<"Z">>])
          /\ (validation.ret = "True") =>
                /\ validation'.ret = "True"
                /\ ~validation'.wrote
                /\ fs' = fs]_vars

\* the second call on a file that the first call had corrected: it succeeded
\* and did not write
C12_Witness ==
    /\ validation.n = 2 /\ validation.ret = "True" /\ ~validation.wrote
    /\ fs[config_path(cur)].v.start_date = <<"2024-01-01", "Z">>

(***************************************************************************)
(* Properties of the checkpoint file.                                      *)
(***************************************************************************)
WriteAttempted == write_outcome \in WriteOutcomes

\* C13: the checkpoint file is written only in a run whose extractor exited
\* with code 0 and emitted at least one STATE message; a run that completes
\* with no STATE message among the extractor's output lines leaves the
\* checkpoint file as it was when the run started.  A STATE message counts
\* with the white space the extractor wrote around it, which the supervisor
\* strips before it parses the line.
C13_CheckpointOnlyAfterState ==
    runs > 0 =>
        /\ WriteAttempted =>
               (proc = "exited" /\ returncode = 0 /\ StateMessages(written) # {})
        /\ fs[state_path(cur)] # state0 => WriteAttempted
        /\ (pc = "Completed" /\ StateMessages(written) = {}) =>
               (write_outcome = "skipped" /\ fs[state_path(cur)] = state0)

\* a run whose extractor wrote a record and no STATE message completed, and
\* the checkpoint of the earlier run is still on disk
C13_Witness ==
    /\ pc = "Completed" /\ records # <<>> /\ StateMessages(written) = {}
    /\ write_outcome = "skipped"
    /\ state0 = Json("V1") /\ fs[state_path(cur)] = Json("V1")

\* a run whose only STATE message was followed by a line boundary, which
\* json.loads rejects and the supervisor strips, wrote its checkpoint
C13_WitnessStripped ==
    /\ pc = "Completed" /\ write_outcome = "ok" /\ fs[state_path(cur)] = Json("V2")
    /\ \A i \in 1..Len(written) : Loads(written[i]) # "obj" \/ written[i].type # "STATE"
    /\ StateMessages(written) # {}

(***************************************************************************)
(* Properties of the lines run_tap_woocommerce returns.                    *)
(***************************************************************************)
\* C14: when the extractor exits 0, the lines run_tap_woocommerce returns
\* are the lines the extractor wrote to its output channel, each once and in
\* the order written, and none of them is a line of the diagnostic channel.
C14_ReturnedLinesAreWrittenLines ==
    tpc = "returned" =>
        /\ Len(output_lines) = Len(written)
        /\ \A i \in 1..Len(written) : output_lines[i] = Strip(written[i])

(***************************************************************************)
(* Properties of steps 8 and 9.                                            *)
(***************************************************************************)
SomeChunkFailed == \E j \in 1..Len(failed) : failed[j]
\* every chunk of the records has been submitted, in order
AllChunksSubmitted ==
    /\ Len(calls) = Ceil(Len(records), CHUNK_SIZE)
    /\ \A j \in 1..Len(calls) :
          calls[j] = SubSeq(records, CHUNK_SIZE * (j - 1) + 1,
                            Min(CHUNK_SIZE * j, Len(records)))

\* C15: once the bulk insert of a chunk has failed, the run still submits
\* every later chunk in order, goes on to the checkpoint step and ends
\* Completed with a summary.
C15_ChunkFailureDoesNotAbort ==
    (pc = "Inserting" /\ SomeChunkFailed)
        ~> (pc = "Completed" /\ result.kind = "summary" /\ AllChunksSubmitted)

\* the first of three chunks failed, the other two were submitted and the
\* run completed with a summary of the 1200 records
C15_Witness ==
    /\ pc = "Completed" /\ failed = <<TRUE, FALSE, FALSE>> /\ Len(calls) = 3
    /\ result.kind = "summary" /\ result.total = 1200

\* C16: when the write of the checkpoint file fails in step 9, the run does
\* not end in error: it is Completed and returns the summary with the
\* per-stream counts and the total of the records classified, as it does
\* when the write succeeds.
C16_CheckpointWriteFailureStillCompletes ==
    write_outcome \in {"open_failed", "write_failed"} =>
        /\ pc = "Completed"
        /\ result = [kind |-> "summary", streams |-> stream_counts, total |-> Len(records)]

\* the write of checkpoint V2 failed half-way in a run that had classified
\* one record, and the run returned its summary
C16_Witness ==
    /\ write_outcome = "write_failed" /\ last_state = "V2"
    /\ pc = "Completed" /\ result.kind = "summary" /\ result.total = 1
    /\ fs[state_path(cur)] = CORRUPT

(***************************************************************************)
(* Properties of the steps of a run.                                       *)
(***************************************************************************)
ConfigBad(content) ==
    content.k # "json" \/ AbsentKeys(content.v) # {} \/ ~HttpScheme(content.v)
EarlyCauses ==
    {"ConfigWriteFailed", "ConfigInvalid", "DiscoveryFailed", "CatalogUnreadable",
     "CatalogSaveFailed"}
BeforeCatalogPersisted == {"Validating", "CatalogCheck", "Discovering", "CatalogLoading"}

\* C17: a run whose config is invalid, whose discovery fails, whose catalog
\* file cannot be read or whose catalog update in the storage fails ends in
\* error without the extractor having been spawned for extraction, without
\* any bulk insert and with the checkpoint file as it was; an invalid config
\* ends the run before discovery is called.
C17_EarlyFailureStopsRun ==
    runs > 0 =>
        /\ (pc # "Validating" /\ ConfigBad(fs[config_path(cur)])) =>
               (/\ pc = "Error" /\ result.cause \in {"ConfigWriteFailed", "ConfigInvalid"}
                /\ discover_calls = 0)
        /\ discovery.ret = "False" => (pc = "Error" /\ result.cause = "DiscoveryFailed")
        /\ (pc \notin BeforeCatalogPersisted /\ fs[catalog_path(cur)].k # "json") =>
               (pc = "Error" /\ result.cause \in EarlyCauses)
        /\ (pc = "Error" /\ result.cause \in EarlyCauses) =>
               /\ proc = "none" /\ command = {}
               /\ calls = <<>>
               /\ fs[state_path(cur)] = state0

\* discovery wrote a catalog, the update of the connection's record in the
\* storage failed, and the run ended with no extractor spawned and the
\* checkpoint untouched
C17_Witness ==
    /\ pc = "Error" /\ result.cause = "CatalogSaveFailed" /\ discover_calls = 1
    /\ proc = "none" /\ calls = <<>>
    /\ state0 = Json("V1") /\ fs[state_path(cur)] = Json("V1")

(***************************************************************************)
(* Properties of the extraction command.                                   *)
(***************************************************************************)
\* C18: run_tap_woocommerce fails before spawning when the config file, or
\* the catalog file of a catalog path it was given, does not exist;
\* otherwise it spawns the extractor with --config, with --catalog when a
\* catalog path was given, and with --state exactly when a checkpoint path
\* was given and that file exists.
C18_CommandFollowsFiles ==
    [][\A cg \in BOOLEAN, sg \in BOOLEAN :
          CallRunTap(cg, sg) =>
              IF fs[config_path(cur)] = ABSENT \/ (cg /\ fs[catalog_path(cur)] = ABSENT)
              THEN proc' = "none" /\ pc' = "Error" /\ result'.kind = "error"
              ELSE /\ proc' = "running"
                   /\ "--config" \in command'
                   /\ cg => "--catalog" \in command'
                   /\ "--state" \in command' <=> (sg /\ fs[state_path(cur)] # ABSENT)]_vars

\* the extractor was spawned with a checkpoint and without a catalog: no
\* catalog path was given, and the checkpoint file exists
C18_Witness ==
    /\ proc = "running" /\ command = {"--config", "--state"}
    /\ fs[state_path(cur)] = Json("V1")

(***************************************************************************)
(* Properties of generate_catalog.                                         *)
(***************************************************************************)
GenerateReturned == discovery.ret # "unset"

\* C19: generate_catalog writes the catalog file only when it succeeds: a
\* call whose discovery process exits non-zero or prints something that is
\* not a catalog document returns False and leaves the catalog path as it
\* was, any call that returns False leaves it as it was, and a call that
\* returns True (exit 0 with a catalog document) leaves the file holding
\* that document.
C19_CatalogWrittenOnlyOnSuccess ==
    GenerateReturned =>
        /\ (discovery.code # 0 \/ ~WellFormed(discovery.output)) =>
               (discovery.ret = "False" /\ fs[catalog_path(cur)] = discovery.before)
        /\ discovery.ret = "False" => fs[catalog_path(cur)] = discovery.before
        /\ discovery.ret = "True" =>
               /\ discovery.code = 0 /\ WellFormed(discovery.output)
               /\ fs[catalog_path(cur)] = discovery.output

(***************************************************************************)
(* Properties of the order of the steps.                                   *)
(***************************************************************************)
\* the steps that can follow a step of a run, besides Error
StepsAfter(step) ==
    CASE step = "Validating" -> {"CatalogCheck"}
      [] step = "CatalogCheck" -> {"Discovering", "CatalogLoading"}
      [] step = "Discovering" -> {"CatalogLoading"}
      [] step = "CatalogLoading" -> {"CatalogPersisted"}
      [] step = "CatalogPersisted" -> {"Executing"}
      [] step = "Executing" -> {"Classifying"}
      [] step = "Classifying" -> {"Persisting"}
      [] step = "Persisting" -> {"Inserting", "CheckpointSaving"}
      [] step = "Inserting" -> {"CheckpointSaving"}
      [] step = "CheckpointSaving" -> {"Completed"}
      [] OTHER -> {}
RunEnded == pc \in {"Idle", "Completed", "Error"}

\* a step of the model: a run that has ended changes nothing more (the next
\* thing that happens is the start of another run), and a run that has not
\* ended moves to one of the steps that follow its step, or to Error
StepsInOrder ==
    IF RunEnded
    THEN runs' = runs + 1 /\ pc' \in {"Validating", "Error"}
    ELSE pc' # pc => (pc' = "Error" \/ pc' \in StepsAfter(pc))

\* C20: a run goes through Validating, (Discovering,) CatalogPersisted,
\* Executing, Classifying, Persisting, CheckpointSaving, Completed in this
\* order without going back; a bulk insert is issued only after the
\* extractor has exited with code 0, the checkpoint file is written only
\* after every chunk has been submitted, and nothing follows Completed or
\* Error in a run.
C20_StepsInOrder ==
    /\ [][StepsInOrder]_vars
    /\ [](calls # <<>> => (proc = "exited" /\ returncode = 0))
    /\ [](WriteAttempted =>
             (ins_i >= Len(records) /\ Len(calls) = Ceil(Len(records), CHUNK_SIZE)))

\* a run that went through every step: discovery, an extraction, a bulk
\* insert and the write of the checkpoint
C20_Witness ==
    /\ pc = "Completed" /\ discover_calls = 1
    /\ Len(calls) = 1 /\ write_outcome = "ok" /\ fs[state_path(cur)] = Json("V2")

(***************************************************************************)
(* Properties of the catalog file over several runs.                       *)
(***************************************************************************)
\* C21: over the runs on a connection directory, once the catalog file
\* exists no step of any run calls generate_catalog or changes what the
\* file holds, however the runs end.
C21_CatalogCreatedOnce ==
    [][\A c \in Connections :
          fs[catalog_path(c)] # ABSENT =>
              /\ fs'[catalog_path(c)] = fs[catalog_path(c)]
              /\ discover_calls' \in {discover_calls, 0}
              /\ discovery' \in {discovery, NoDiscovery}]_vars

\* a second run in a directory where an earlier run had completed and left
\* its checkpoint: it found the catalog, called no discovery and completed
C21_Witness ==
    /\ runs = 2 /\ pc = "Completed" /\ state0 = Json("V2")
    /\ catalog0 = Json("CATALOG") /\ fs[catalog_path(cur)] = Json("CATALOG")
    /\ discover_calls = 0 /\ discovery = NoDiscovery

(***************************************************************************)
(* The config file at the time a process is started.                       *)
(***************************************************************************)
ConfigComplete(content) ==
    /\ content.k = "json"
    /\ AbsentKeys(content.v) = {}
    /\ HttpScheme(content.v)
    /\ content.v.start_date # <<>>
    /\ content.v.start_date[Len(content.v.start_date)] = "Z"

ProcessStarted == pc = "Discovering" \/ discover_calls > 0 \/ proc # "none"

\* C22: whenever a run is about to start or has started a process, for
\* discovery or for extraction, the config file on disk holds the four
\* required keys, a site_url with an http:// or https:// scheme and a
\* start_date that ends with Z; also when the connection's start_date had no
\* Z and the file was rewritten at the start of the run.
C22_ProcessSeesCompleteConfig ==
    ProcessStarted => ConfigComplete(fs[config_path(cur)])

\* the extractor runs on a config whose start_date was given without Z and
\* rewritten by the validation of this run
C22_Witness ==
    /\ proc = "running" /\ validation.wrote
    /\ fs[config_path(cur)].v.start_date = <<"2024-01-01", "Z">>

(***************************************************************************)
(* A run from the start of the extractor to its response: the extractor    *)
(* writes lines of every kind, the supervisor collects them, and steps 7   *)
(* to 9 classify them, insert the records and save the checkpoint.         *)
(***************************************************************************)
NextSummary ==
    \/ NextClassify
    \/ BeginInsert
    \/ SkipInsert
    \/ \E raised \in BOOLEAN : InsertChunk(raised)
    \/ InsertReturn
    \/ \E o \in WriteOutcomes : SaveCheckpoint(o)

SpecSummary == InitTap /\ [][NextSummary]_vars

RECURSIVE SumOver(_, _)
SumOver(counts, keys) ==
    IF keys = {} THEN 0
    ELSE LET k == CHOOSE x \in keys : TRUE
         IN  counts[k] + SumOver(counts, keys \ {k})
SumCounts(counts) == SumOver(counts, DOMAIN counts)

\* C23: in a completed run the total of the summary is the sum of its
\* per-stream counts and the number of records handed to
\* insert_records_batch; it counts the records classified, whether or not
\* their bulk insert failed.
C23_TotalIsRecordsClassified ==
    pc = "Completed" =>
        /\ result.kind = "summary"
        /\ result.total = SumCounts(result.streams)
        /\ result.total = Len(RecordLines(output_lines))
        /\ result.total = Len(Flatten(calls))
        /\ \A s \in DOMAIN result.streams :
               result.streams[s] = CountLines(output_lines, IF s = "None" THEN MISSING ELSE s)

\* a run completed with two records of two streams whose bulk insert failed:
\* nothing was stored and the summary reports two records
C23_Witness ==
    /\ pc = "Completed" /\ failed = <<TRUE>> /\ total_inserted = 0
    /\ result.total = 2 /\ DOMAIN result.streams = {"orders", "customers"}

(***************************************************************************)
(* The checkpoint step after the insert step.                              *)
(***************************************************************************)
\* C24: the checkpoint is written whatever the insert step did: a completed
\* run whose supervisor returned a non-empty last checkpoint has attempted
\* to overwrite the checkpoint file with it, and the file holds it when the
\* write went through, also when bulk inserts failed and when there were no
\* records and no insert at all.
C24_CheckpointIndependentOfInserts ==
    (pc = "Completed" /\ returncode = 0 /\ last_state \notin {None, EMPTY}) =>
        /\ write_outcome \in WriteOutcomes
        /\ write_outcome = "ok" => fs[state_path(cur)] = Json(last_state)
        /\ write_outcome = "open_failed" => fs[state_path(cur)] = state0

\* every bulk insert of a run of several chunks failed, and the checkpoint
\* file holds the last checkpoint
C24_Witness ==
    /\ pc = "Completed" /\ Len(failed) > 1 /\ \A i \in 1..Len(failed) : failed[i]
    /\ total_inserted = 0
    /\ write_outcome = "ok" /\ fs[state_path(cur)] = Json("V2")

\* no records, no insert, and the checkpoint file holds the last checkpoint
C24_WitnessNoRecords ==
    /\ pc = "Completed" /\ records = <<>> /\ calls = <<>>
    /\ write_outcome = "ok" /\ fs[state_path(cur)] = Json("V2")

(***************************************************************************)
(* What validate_tap_config writes.                                        *)
(***************************************************************************)
StartDateHasZ(content) ==
    /\ content.k = "json" /\ content.v.start_date # <<MISSING>>
    /\ content.v.start_date # <<>>
    /\ content.v.start_date[Len(content.v.start_date)] = "Z"

\* C25: a call of validate_tap_config that returns False leaves the config
\* file as it was (absent, not JSON, fields missing, wrong scheme), and so
\* does a call on a file whose start_date already ends with Z; the file is
\* rewritten only to append Z to the start_date of a document that is
\* valid otherwise, and nothing else of the document changes.
C25_ValidateWritesOnlyTheCorrection ==
    [][CallValidate =>
          LET before == fs[config_path(cur)] IN
          /\ validation'.ret = "False" => (fs' = fs /\ ~validation'.wrote)
          /\ StartDateHasZ(before) => (fs' = fs /\ ~validation'.wrote)
          /\ (validation'.wrote \/ fs' # fs) =>
                /\ before.k = "json" /\ AbsentKeys(before.v) = {} /\ HttpScheme(before.v)
                /\ ~StartDateHasZ(before)
                /\ validation'.ret = "True"
                /\ fs' = [fs EXCEPT ![config_path(cur)] =
                             Json([before.v EXCEPT !.start_date = @ \o <<"Z">>])]]_vars

====
